---- MODULE Spec2Model ----
(***************************************************************************)
(* A model of evolve_text.py: an evolutionary search for a goal message,   *)
(* with the edit distance to the goal as the fitness of a Message.         *)
(*                                                                         *)
(* Characters are numbered: 1..NumValidChars stand for VALID_CHARS, the    *)
(* numbers above them for characters outside VALID_CHARS.  A string or a   *)
(* Message is a sequence of characters.  Every call of the random module   *)
(* is a nondeterministic choice over the values the call can return.       *)
(***************************************************************************)
EXTENDS Integers, Sequences, FiniteSets

(***************************************************************************)
(* Bounds of the model.                                                    *)
(***************************************************************************)
NumValidChars == 2
NumOtherChars == 2
\* The longest string the distance functions and the operators are applied
\* to, and the cap on the growth of a Message in the generational loop.
MaxLen == 3
\* The longest goal of a command line.
MaxGoalLen == 2
\* Message.__init__'s min_length and max_length (4 and 30 in the code).
min_length == 2
max_length == 2
\* The population size (n=300 in evolve_string) and the number of
\* generations (ngen=500).
PopSize == 2
NGen == 2
\* The largest population, fitness and tournament size selection is applied to.
MaxPop == 2
MaxFit == 1
MaxTourn == 3

VARIABLES
    \* edit_distance / levenshtein_distance applied to two strings
    string_1, string_2, dpc, distance, reference,
    \* mutate_text applied to one Message: the Message and the position in
    \* the function
    message, mpc,
    \* tournament selection applied to one evaluated population: the
    \* population, the tournament size, the aspirants of the last tournament,
    \* the individuals chosen so far
    individuals, tournsize, aspirants, chosen,
    \* crossover applied to two Messages
    ind1, ind2, child1, child2, cpc,
    \* the command line: the goal, the position of the validation loop, the
    \* ValueError raised
    goal, gi, mainpc, err,
    \* evolve_string: the population, the pool being varied, the generation,
    \* the loop cursor, the statistics log, the state of the engine
    pop, offspring, gen, k, logbook, epc

distVars == <<string_1, string_2, dpc, distance, reference>>
mutVars == <<message, mpc>>
selVars == <<individuals, tournsize, aspirants, chosen>>
cxVars == <<ind1, ind2, child1, child2, cpc>>
mainVars == <<goal, gi, mainpc, err>>
evoVars == <<pop, offspring, gen, k, logbook, epc>>
vars == <<distVars, mutVars, selVars, cxVars, mainVars, evoVars>>

(***************************************************************************)
(* Global variables                                                        *)
(***************************************************************************)
VALID_CHARS == 1..NumValidChars
AllChars == 1..(NumValidChars + NumOtherChars)

\* All sequences over S of length lo..hi.
SeqsOf(S, lo, hi) == UNION {[1..n -> S] : n \in lo..hi}

min2(x, y) == IF x <= y THEN x ELSE y
min3(x, y, z) == min2(x, min2(y, z))

(***************************************************************************)
(* Message object to use in evolutionary algorithm                         *)
(***************************************************************************)
\* No value: a fitness without values, a result not computed yet.
unset == -2

\* FitnessMinimizeSingle: one objective, to minimize.  The weighted value is
\* what individuals are compared by, the larger the better.
weights == -1
\* The weighted value under a weight of 1: an objective to maximize.
wvalues_maximize(values) == values
wvalues(values) == weights * values

\* A Message: its characters and its fitness, without values when created.
\* A Message born with a fitness value.
Message_evaluated(text) == [text |-> text, fitness |-> 0]
Message(text) == [text |-> text, fitness |-> unset]
valid(ind) == ind.fitness # unset

\* Message(): a random length in min_length..max_length, each character a random
\* choice of VALID_CHARS.
RandomMessages == {Message(t) : t \in SeqsOf(VALID_CHARS, min_length, max_length)}

(***************************************************************************)
(* Genetic operators: the distance                                         *)
(***************************************************************************)
RECURSIVE levenshtein_distance(_, _, _, _)
levenshtein_distance(s1, len_1, s2, len_2) ==
    IF len_1 = 0 THEN len_2
    ELSE IF len_2 = 0 THEN len_1
    ELSE LET dist == IF s1[len_1] = s2[len_2] THEN 0 ELSE 1
             reduce_1 == levenshtein_distance(s1, len_1 - 1, s2, len_2) + 1
             reduce_2 == levenshtein_distance(s1, len_1, s2, len_2 - 1) + 1
             reduce_both == levenshtein_distance(s1, len_1 - 1, s2, len_2 - 1) + dist
         IN  min3(reduce_1, reduce_2, reduce_both)

\* The value that stands for edit_distance raising IndexError: numpy refuses
\* every index into an axis of size 0.
IndexError == -1

\* d is a len_1 by len_2 matrix of zeros, indexed from 0; the strings are
\* indexed from 0 in the code and from 1 here, so string_1[i-1] of the code is
\* s1[i].
edit_distance(s1, s2) ==
    LET len_1 == Len(s1)
        len_2 == Len(s2)
        d[i \in 0..(len_1 - 1), j \in 0..(len_2 - 1)] ==
            IF j = 0 THEN i
            ELSE IF i = 0 THEN j
            ELSE IF s1[i] = s2[j] THEN d[i - 1, j - 1]
            ELSE min3(d[i - 1, j] + 1, d[i, j - 1] + 1, d[i - 1, j - 1] + 1)
    IN  IF len_1 = 0 \/ len_2 = 0 THEN IndexError
        ELSE d[len_1 - 1, len_2 - 1]

\* The fitness evaluate_text gives a Message (the tuple's one component).
evaluate_text(msg, goal_text) == edit_distance(msg, goal_text)

(***************************************************************************)
(* The distance functions applied to every pair of strings within bounds.  *)
(***************************************************************************)

DistIdle ==
    /\ string_1 = <<>>
    /\ string_2 = <<>>
    /\ dpc = "idle"
    /\ distance = unset
    /\ reference = unset

DistInit ==
    /\ string_1 \in SeqsOf(VALID_CHARS, 0, MaxLen)
    /\ string_2 \in SeqsOf(VALID_CHARS, 0, MaxLen)
    /\ dpc = "call"
    /\ distance = unset
    /\ reference = unset

DistCompute ==
    /\ dpc = "call"
    /\ distance' = evaluate_text(string_1, string_2)
    /\ reference' = levenshtein_distance(string_1, Len(string_1), string_2, Len(string_2))
    /\ dpc' = IF distance' = IndexError THEN "raised" ELSE "returned"
    /\ UNCHANGED <<string_1, string_2>>

(***************************************************************************)
(* Genetic operators: mutation                                             *)
(***************************************************************************)
\* random.randint(a, b): the values it can return; none when b < a, and the
\* call raises ValueError.
randint(a, b) == a..b

\* One draw of random.random() < prob with 0 < prob < 1: the trial fires or not.
trial == BOOLEAN

\* list.insert(i, char), list.pop(i) and list[i] = char, i counted from 0.
list_insert(m, i, char) == SubSeq(m, 1, i) \o <<char>> \o SubSeq(m, i + 1, Len(m))
list_pop(m, i) == SubSeq(m, 1, i) \o SubSeq(m, i + 2, Len(m))
list_set(m, i, char) == [m EXCEPT ![i + 1] = char]

\* The positions each mutation draws from.
InsertionIndex(m) == randint(0, Len(m) - 1)
DeletionIndex(m) == randint(0, Len(m) - 1)
SubstitutionIndex(m) == randint(0, Len(m) - 1)

Outcome(m, r) == [msg |-> m, raised |-> r]

\* The three steps of mutate_text, each the set of its outcomes on Message m:
\* the Message after the step, or raised when randint has nothing to draw.
insertion(m, fire) ==
    IF ~fire THEN {Outcome(m, FALSE)}
    ELSE IF InsertionIndex(m) = {} THEN {Outcome(m, TRUE)}
    ELSE {Outcome(list_insert(m, i, char), FALSE) : i \in InsertionIndex(m), char \in VALID_CHARS}

deletion(m, fire) ==
    IF ~fire THEN {Outcome(m, FALSE)}
    ELSE IF DeletionIndex(m) = {} THEN {Outcome(m, TRUE)}
    ELSE {Outcome(list_pop(m, i), FALSE) : i \in DeletionIndex(m)}

substitution(m, fire) ==
    IF ~fire THEN {Outcome(m, FALSE)}
    ELSE IF SubstitutionIndex(m) = {} THEN {Outcome(m, TRUE)}
    ELSE {Outcome(list_set(m, i, char), FALSE) : i \in SubstitutionIndex(m), char \in VALID_CHARS}

InsertionStep(m) == UNION {insertion(m, fire) : fire \in trial}
DeletionStep(m) == UNION {deletion(m, fire) : fire \in trial}
SubstitutionStep(m) == UNION {substitution(m, fire) : fire \in trial}

\* Every outcome of mutate_text(message): insertion, then deletion, then
\* substitution, each on the Message as the step before left it; an exception
\* ends the function.
mutate_text(m) ==
    LET inserted == InsertionStep(m)
        deleted == UNION {IF o.raised THEN {o} ELSE DeletionStep(o.msg) : o \in inserted}
    IN  UNION {IF o.raised THEN {o} ELSE SubstitutionStep(o.msg) : o \in deleted}

(***************************************************************************)
(* mutate_text applied to every non-empty Message within bounds, a step at *)
(* a time.                                                                 *)
(***************************************************************************)
MutIdle ==
    /\ message = <<>>
    /\ mpc = "idle"

MutInit ==
    /\ message \in SeqsOf(VALID_CHARS, 1, MaxLen)
    /\ mpc = "insertion"

MutInsertion ==
    /\ mpc = "insertion"
    /\ \E o \in InsertionStep(message) :
        /\ message' = o.msg
        /\ mpc' = IF o.raised THEN "raised" ELSE "deletion"

MutDeletion ==
    /\ mpc = "deletion"
    /\ \E o \in DeletionStep(message) :
        /\ message' = o.msg
        /\ mpc' = IF o.raised THEN "raised" ELSE "substitution"

MutSubstitution ==
    /\ mpc = "substitution"
    /\ \E o \in SubstitutionStep(message) :
        /\ message' = o.msg
        /\ mpc' = IF o.raised THEN "raised" ELSE "returned"

(***************************************************************************)
(* DEAP Toolbox: selection and crossover                                   *)
(***************************************************************************)
\* tournsize=3 of the toolbox's select.
TournSize == 3

\* The winner of one tournament: of the aspirants drawn (positions in the
\* population, drawn with replacement), the first of greatest weighted fitness.
TournamentWinner(inds, asp) ==
    LET w(j) == wvalues(inds[asp[j]].fitness)
        best == CHOOSE j \in 1..Len(asp) :
                    /\ \A l \in 1..Len(asp) : w(l) <= w(j)
                    /\ \A l \in 1..(j - 1) : w(l) < w(j)
    IN  asp[best]

\* The aspirants one tournament can draw.
Aspirants(inds, size) == [1..size -> 1..Len(inds)]

\* selTournament(individuals, count, tournsize): every pool it can return.
selTournament(inds, count, size) ==
    LET winners == {TournamentWinner(inds, asp) : asp \in Aspirants(inds, size)}
    IN  {[j \in 1..count |-> inds[c[j]]] : c \in [1..count -> winners]}

\* toolbox.select
select(inds, count) == selTournament(inds, count, TournSize)

\* The cut points of one parent: two positions within its length, the first
\* symbol staying with its parent (the length >= 1 invariant).
CutPoints(ind) == {c \in (1..Len(ind)) \X (1..Len(ind)) : c[1] <= c[2]}

\* A crossover that copies the second parent's segment into the first and
\* leaves the second parent as it is.
cxTwoPoint_copy(p1, p2, cut1, cut2) ==
    LET seg2 == SubSeq(p2, cut2[1] + 1, cut2[2])
    IN  << SubSeq(p1, 1, cut1[1]) \o seg2 \o SubSeq(p1, cut1[2] + 1, Len(p1)), p2 >>

\* Two-point crossover: the segment between the cut points of each parent is
\* exchanged for the other parent's.
cxTwoPoint(p1, p2, cut1, cut2) ==
    LET seg1 == SubSeq(p1, cut1[1] + 1, cut1[2])
        seg2 == SubSeq(p2, cut2[1] + 1, cut2[2])
    IN  << SubSeq(p1, 1, cut1[1]) \o seg2 \o SubSeq(p1, cut1[2] + 1, Len(p1)),
           SubSeq(p2, 1, cut2[1]) \o seg1 \o SubSeq(p2, cut2[2] + 1, Len(p2)) >>

\* toolbox.mate
mate(p1, p2, cut1, cut2) == cxTwoPoint(p1, p2, cut1, cut2)

\* toolbox.population(n)
\* A population one individual short.
population_short(n) == [1..(n - 1) -> RandomMessages]
population(n) == [1..n -> RandomMessages]

\* An individual of the pool after an operator gave it the characters text: its
\* fitness is cleared.
invalidate(text) == [text |-> text, fitness |-> unset]

(***************************************************************************)
(* Tournament selection applied to every evaluated population within       *)
(* bounds, a pick at a time.                                               *)
(***************************************************************************)
SelIdle ==
    /\ individuals = <<>>
    /\ tournsize = 0
    /\ aspirants = <<>>
    /\ chosen = <<>>

\* Evaluated individuals: two Messages to tell individuals of equal fitness
\* apart, every fitness within the bound.
Evaluated == {[text |-> t, fitness |-> f] : t \in {<<1>>, <<1, 1>>}, f \in 0..MaxFit}

SelInit ==
    /\ individuals \in SeqsOf(Evaluated, 1, MaxPop)
    /\ tournsize \in 1..MaxTourn
    /\ aspirants = <<>>
    /\ chosen = <<>>

\* One of the count = len(individuals) picks.
SelPick ==
    /\ tournsize > 0
    /\ Len(chosen) < Len(individuals)
    /\ \E asp \in Aspirants(individuals, tournsize) :
        /\ aspirants' = asp
        /\ chosen' = Append(chosen, individuals[TournamentWinner(individuals, asp)])
    /\ UNCHANGED <<individuals, tournsize>>

(***************************************************************************)
(* Crossover applied to every two non-empty Messages within bounds, for    *)
(* every two cut points of each, the first symbol's position included.     *)
(***************************************************************************)
CxIdle ==
    /\ ind1 = <<>>
    /\ ind2 = <<>>
    /\ child1 = <<>>
    /\ child2 = <<>>
    /\ cpc = "idle"

CxInit ==
    /\ ind1 \in SeqsOf(VALID_CHARS, 1, MaxLen)
    /\ ind2 \in SeqsOf(VALID_CHARS, 1, MaxLen)
    /\ child1 = <<>>
    /\ child2 = <<>>
    /\ cpc = "call"

AnyCuts(ind) == {c \in (0..Len(ind)) \X (0..Len(ind)) : c[1] <= c[2]}

CxMate ==
    /\ cpc = "call"
    /\ \E cut1 \in AnyCuts(ind1), cut2 \in AnyCuts(ind2) :
        LET children == mate(ind1, ind2, cut1, cut2)
        IN  /\ child1' = children[1]
            /\ child2' = children[2]
    /\ cpc' = "returned"
    /\ UNCHANGED <<ind1, ind2>>

(***************************************************************************)
(* Run if called from the command line                                     *)
(***************************************************************************)
\* The test of the validation loop on one character of the goal.
\* The test with its sense inverted.
illegal_inverted(char) == char \in VALID_CHARS
illegal(char) == char \notin VALID_CHARS

MainIdle ==
    /\ goal = <<>>
    /\ gi = 0
    /\ mainpc = "idle"
    /\ err = <<>>

MainInit ==
    /\ goal \in SeqsOf(AllChars, 0, MaxGoalLen)
    /\ gi = 1
    /\ mainpc = "validate"
    /\ err = <<>>

\* One iteration of "for char in goal".
MainCheckChar ==
    /\ mainpc = "validate"
    /\ gi <= Len(goal)
    /\ IF illegal(goal[gi])
       THEN /\ mainpc' = "ValueError"
            /\ err' = [goal |-> goal, char |-> goal[gi], val |-> VALID_CHARS]
            /\ gi' = gi
       ELSE /\ gi' = gi + 1
            /\ UNCHANGED <<mainpc, err>>
    /\ UNCHANGED <<goal, evoVars>>

\* The loop is over: evolve_string(goal) is called.
MainEvolveString ==
    /\ mainpc = "validate"
    /\ gi > Len(goal)
    /\ mainpc' = "evolve_string"
    /\ epc' = "Initializing"
    /\ UNCHANGED <<goal, gi, err, pop, offspring, gen, k, logbook>>

(***************************************************************************)
(* evolve_string: the generational loop                                    *)
(***************************************************************************)
RECURSIVE SumSeq(_)
SumSeq(q) == IF q = <<>> THEN 0 ELSE Head(q) + SumSeq(Tail(q))

\* The statistics of one generation: min and max of the fitness values, and
\* their sum and sum of squares, which the mean and the standard deviation
\* are computed from.
record(g, inds) ==
    LET f == [i \in 1..Len(inds) |-> inds[i].fitness]
    IN  [gen |-> g,
         min |-> CHOOSE x \in {f[i] : i \in 1..Len(f)} : \A i \in 1..Len(f) : x <= f[i],
         max |-> CHOOSE x \in {f[i] : i \in 1..Len(f)} : \A i \in 1..Len(f) : x >= f[i],
         sum |-> SumSeq(f),
         sumsq |-> SumSeq([i \in 1..Len(f) |-> f[i] * f[i]])]

\* Every individual without a valid fitness evaluated against the goal.
evaluate(inds, goal_text) ==
    [i \in 1..Len(inds) |->
        IF valid(inds[i]) THEN inds[i]
        ELSE [inds[i] EXCEPT !.fitness = evaluate_text(inds[i].text, goal_text)]]

EvoIdle ==
    /\ pop = <<>>
    /\ offspring = <<>>
    /\ gen = 0
    /\ k = 0
    /\ logbook = <<>>
    /\ epc = "idle"

\* Initializing: the population of random Messages.
EvoPopulation ==
    /\ epc = "Initializing"
    /\ pop' \in population(PopSize)
    /\ epc' = "Evaluating"
    /\ UNCHANGED <<offspring, gen, k, logbook>>

\* Evaluating: the individuals without a valid fitness are evaluated, the
\* generation's statistics are recorded; the run ends after NGen generations.
\* An evaluation that raises ends the run.
EvoEvaluate ==
    /\ epc = "Evaluating"
    /\ LET evaluated == evaluate(pop, goal)
       IN  IF \E i \in 1..Len(pop) : evaluated[i].fitness = IndexError
           THEN /\ epc' = "raised"
                /\ UNCHANGED <<pop, logbook>>
           ELSE /\ pop' = evaluated
                /\ logbook' = Append(logbook, record(gen, evaluated))
                /\ epc' = IF gen >= NGen THEN "Terminated" ELSE "select"
    /\ UNCHANGED <<offspring, gen, k>>

\* Evolving: the mating pool, of the size of the population.
EvoSelect ==
    /\ epc = "select"
    /\ offspring' \in select(pop, Len(pop))
    /\ k' = 1
    /\ epc' = IF Len(pop) >= 2 THEN "mate" ELSE "mutate"
    /\ UNCHANGED <<pop, gen, logbook>>

\* Evolving: the pair at k, k + 1 of the pool is crossed or not; the fitness
\* of two crossed individuals is cleared.
EvoMate ==
    /\ epc = "mate"
    /\ \/ UNCHANGED offspring
       \/ \E cut1 \in CutPoints(offspring[k].text), cut2 \in CutPoints(offspring[k + 1].text) :
            LET children == mate(offspring[k].text, offspring[k + 1].text, cut1, cut2)
            IN  /\ Len(children[1]) <= MaxLen
                /\ Len(children[2]) <= MaxLen
                /\ offspring' = [offspring EXCEPT ![k] = invalidate(children[1]),
                                                  ![k + 1] = invalidate(children[2])]
    /\ IF k + 3 <= Len(offspring)
       THEN k' = k + 2 /\ epc' = "mate"
       ELSE k' = 1 /\ epc' = "mutate"
    /\ UNCHANGED <<pop, gen, logbook>>

\* Evolving: the individual at k of the pool is mutated or not; the fitness of
\* a mutated individual is cleared.  After the last one the pool replaces the
\* population and the generation is counted.  A mutation that raises ends the
\* run.
EvoMutate ==
    /\ epc = "mutate"
    /\ \/ /\ offspring' = (IF k < Len(offspring) THEN offspring ELSE <<>>)
          /\ pop' = (IF k < Len(offspring) THEN pop ELSE offspring)
          /\ k' = (IF k < Len(offspring) THEN k + 1 ELSE 0)
          /\ gen' = (IF k < Len(offspring) THEN gen ELSE gen + 1)
          /\ epc' = (IF k < Len(offspring) THEN "mutate" ELSE "Evaluating")
       \/ \E o \in mutate_text(offspring[k].text) :
            /\ Len(o.msg) <= MaxLen
            /\ LET mutated == [offspring EXCEPT ![k] = invalidate(o.msg)]
               IN  IF o.raised
                   THEN /\ offspring' = [offspring EXCEPT ![k].text = o.msg]
                        /\ epc' = "raised"
                        /\ UNCHANGED <<pop, k, gen>>
                   ELSE /\ offspring' = (IF k < Len(offspring) THEN mutated ELSE <<>>)
                        /\ pop' = (IF k < Len(offspring) THEN pop ELSE mutated)
                        /\ k' = (IF k < Len(offspring) THEN k + 1 ELSE 0)
                        /\ gen' = (IF k < Len(offspring) THEN gen ELSE gen + 1)
                        /\ epc' = (IF k < Len(offspring) THEN "mutate" ELSE "Evaluating")
    /\ UNCHANGED <<logbook>>

(***************************************************************************)
(* Specifications                                                          *)
(***************************************************************************)
DistNext == DistCompute /\ UNCHANGED <<mutVars, selVars, cxVars, mainVars, evoVars>>

InitDist == DistInit /\ MutIdle /\ SelIdle /\ CxIdle /\ MainIdle /\ EvoIdle

SpecDist == InitDist /\ [][DistNext]_vars

MutNext ==
    \/ MutInsertion /\ UNCHANGED <<distVars, selVars, cxVars, mainVars, evoVars>>
    \/ MutDeletion /\ UNCHANGED <<distVars, selVars, cxVars, mainVars, evoVars>>
    \/ MutSubstitution /\ UNCHANGED <<distVars, selVars, cxVars, mainVars, evoVars>>

InitMut == MutInit /\ DistIdle /\ SelIdle /\ CxIdle /\ MainIdle /\ EvoIdle

SpecMut == InitMut /\ [][MutNext]_vars

SelNext == SelPick /\ UNCHANGED <<distVars, mutVars, cxVars, mainVars, evoVars>>

InitSel == SelInit /\ DistIdle /\ MutIdle /\ CxIdle /\ MainIdle /\ EvoIdle

SpecSel == InitSel /\ [][SelNext]_vars

CxNext == CxMate /\ UNCHANGED <<distVars, mutVars, selVars, mainVars, evoVars>>

InitCx == CxInit /\ DistIdle /\ MutIdle /\ SelIdle /\ MainIdle /\ EvoIdle

SpecCx == InitCx /\ [][CxNext]_vars

\* The program: the command line's goal is validated, then evolve_string runs.
Init == MainInit /\ EvoIdle /\ DistIdle /\ MutIdle /\ SelIdle /\ CxIdle

Next ==
    \/ MainCheckChar /\ UNCHANGED <<distVars, mutVars, selVars, cxVars>>
    \/ MainEvolveString /\ UNCHANGED <<distVars, mutVars, selVars, cxVars>>
    \/ EvoPopulation /\ UNCHANGED <<distVars, mutVars, selVars, cxVars, mainVars>>
    \/ EvoEvaluate /\ UNCHANGED <<distVars, mutVars, selVars, cxVars, mainVars>>
    \/ EvoSelect /\ UNCHANGED <<distVars, mutVars, selVars, cxVars, mainVars>>
    \/ EvoMate /\ UNCHANGED <<distVars, mutVars, selVars, cxVars, mainVars>>
    \/ EvoMutate /\ UNCHANGED <<distVars, mutVars, selVars, cxVars, mainVars>>

Spec == Init /\ [][Next]_vars

(***************************************************************************)
(* Claims                                                                  *)
(***************************************************************************)
\* C1: edit_distance(a, b) is the minimum number of single-symbol insertions,
\* deletions and substitutions turning a into b: the value of the reference
\* recursion levenshtein_distance(a, |a|, b, |b|), for every a and b.
C1_EditDistanceIsLevenshtein ==
    dpc = "returned" => distance = reference

\* C2: the distance edit_distance computes (the fitness evaluate_text assigns)
\* is zero if and only if the two sequences are equal.
C2_ZeroIffEqual ==
    dpc = "returned" => ((distance = 0) <=> (string_1 = string_2))

\* C3: mutate_text never produces a length-0 individual: whatever trials fire,
\* a non-empty message has length >= 1 when mutate_text finishes.
C3_MutateNeverEmpty ==
    mpc \in {"returned", "raised"} => Len(message) >= 1

Offending == {i \in 1..Len(goal) : goal[i] \notin VALID_CHARS}
FirstOffending == CHOOSE i \in Offending : \A j \in Offending : i <= j

\* C4: a goal with a symbol outside the alphabet fails with an error naming the
\* first offending symbol, in sequence order, and the valid alphabet, and the
\* search (population, evaluation, any generation) is never started; a goal
\* whose symbols are all of the alphabet raises no error, and once validated
\* the search is started.
C4_InvalidGoalFailsBeforeSearch ==
    /\ mainpc = "ValueError" =>
        /\ Offending # {}
        /\ err = [goal |-> goal, char |-> goal[FirstOffending], val |-> VALID_CHARS]
    /\ Offending # {} =>
        /\ mainpc \in {"validate", "ValueError"}
        /\ gi <= FirstOffending
        /\ epc = "idle" /\ pop = <<>> /\ offspring = <<>> /\ logbook = <<>> /\ gen = 0
    /\ Offending = {} =>
        /\ mainpc \in {"validate", "evolve_string"}
        /\ err = <<>>
        /\ mainpc = "evolve_string" <=> epc # "idle"

C4_Witness_SecondOffenderNotNamed ==
    /\ mainpc = "ValueError"
    /\ Len(goal) = 2
    /\ goal[1] \in VALID_CHARS
    /\ goal[2] \notin VALID_CHARS
    /\ err.char = goal[2]
    /\ epc = "idle"

\* The least fitness of a population.
MinFitness(inds) ==
    CHOOSE f \in {inds[i].fitness : i \in 1..Len(inds)} :
        \A i \in 1..Len(inds) : f <= inds[i].fitness

\* C5 as stated: with tournament_size >= population size, tournament selection
\* returns a best (lowest-fitness) individual of the population on every one of
\* its picks, whatever the random draws.
C5_TournamentReturnsBest ==
    tournsize >= Len(individuals) =>
        \A j \in 1..Len(chosen) : chosen[j].fitness = MinFitness(individuals)

\* C5 as amended: every pick returns the lowest-fitness individual among the
\* aspirants drawn, the first drawn on ties; it is a best individual of the
\* population on every pick in which a best individual is among the aspirants.
C5_TournamentReturnsBestAspirant ==
    chosen # <<>> =>
        LET c == chosen[Len(chosen)]
            a(l) == individuals[aspirants[l]]
        IN  /\ Len(aspirants) = tournsize
            /\ \E j \in 1..tournsize :
                /\ c = a(j)
                /\ \A l \in 1..tournsize : a(l).fitness >= c.fitness
                /\ \A l \in 1..(j - 1) : a(l).fitness > c.fitness
            /\ (\E l \in 1..tournsize : a(l).fitness = MinFitness(individuals))
                    => c.fitness = MinFitness(individuals)

C5_Witness_BestAmongAspirants ==
    /\ tournsize >= Len(individuals)
    /\ Len(individuals) >= 2
    /\ Len(chosen) = Len(individuals)
    /\ \E i \in 1..Len(individuals) : individuals[i].fitness # MinFitness(individuals)
    /\ {aspirants[l] : l \in 1..Len(aspirants)} = 1..Len(individuals)
    /\ chosen[Len(chosen)].fitness = MinFitness(individuals)

\* The number of times char occurs in q.
Count(q, char) == Cardinality({i \in 1..Len(q) : q[i] = char})

\* C6: two-point crossover of two individuals of lengths L1, L2 >= 1 yields, for
\* every choice of cut points, two children holding L1 + L2 symbols together,
\* and the same symbols, each as many times, as the two parents together.
C6_CrossoverConservesSymbols ==
    cpc = "returned" =>
        /\ Len(child1) + Len(child2) = Len(ind1) + Len(ind2)
        /\ \A char \in VALID_CHARS :
            Count(child1, char) + Count(child2, char) = Count(ind1, char) + Count(ind2, char)

C6_Witness_ChildrenOfOtherLengths ==
    /\ cpc = "returned"
    /\ Len(child1) > Len(ind1)
    /\ Len(child2) < Len(ind2)
    /\ Len(child2) >= 1
    /\ child1 # ind1 \o ind2

\* C7: the population size is constant across the generations of a run: after
\* initialization, selection, crossover, mutation and replacement alike, the
\* population (and the pool being varied) holds exactly N individuals.
C7_PopulationSizeConstant ==
    /\ epc \notin {"idle", "Initializing"} => Len(pop) = PopSize
    /\ epc \in {"mate", "mutate"} => Len(offspring) = PopSize
    /\ epc \in {"idle", "Initializing"} => pop = <<>>

C7_Witness_LastGeneration ==
    /\ epc = "Terminated"
    /\ gen = NGen
    /\ Len(pop) = PopSize
    /\ \E i \in 1..Len(pop) : Len(pop[i].text) < min_length
    /\ \E i \in 1..Len(pop) : Len(pop[i].text) > max_length

\* C8: the generational loop stops only by reaching Terminated, after the
\* configured number of generations has been run and recorded, never earlier;
\* stated for the runs with a non-empty goal.
C8_StopsOnlyAfterAllGenerations ==
    (goal # <<>> /\ epc \in {"Terminated", "raised"}) =>
        /\ epc = "Terminated"
        /\ gen = NGen
        /\ Len(logbook) = NGen + 1

\* C9: no stale fitness is used: when the statistics have been recorded and
\* selection reads the fitness values, every individual of the population has
\* a fitness, the one evaluate_text gives its current characters, and the
\* record is the one of these values; an individual of the pool that crossover
\* or mutation changed has no fitness until it is evaluated again.
C9_NoStaleFitness ==
    /\ epc \in {"select", "Terminated"} =>
        /\ \A i \in 1..Len(pop) :
            /\ valid(pop[i])
            /\ pop[i].fitness = evaluate_text(pop[i].text, goal)
        /\ logbook # <<>>
        /\ logbook[Len(logbook)] =
                record(gen, [i \in 1..Len(pop) |->
                                [text |-> pop[i].text,
                                 fitness |-> evaluate_text(pop[i].text, goal)]])
    /\ epc \in {"mate", "mutate"} =>
        \A i \in 1..Len(offspring) :
            valid(offspring[i]) => offspring[i].fitness = evaluate_text(offspring[i].text, goal)
    /\ epc = "Evaluating" =>
        \A i \in 1..Len(pop) :
            valid(pop[i]) => pop[i].fitness = evaluate_text(pop[i].text, goal)

C9_Witness_ReevaluatedAfterChange ==
    /\ epc = "select"
    /\ gen >= 1
    /\ \E i \in 1..Len(pop) :
        /\ Len(pop[i].text) > max_length
        /\ valid(pop[i])
        /\ pop[i].fitness > 0

====
